---------------------------- MODULE Spec2Model ----------------------------
(***************************************************************************)
(* A model of the userspace TCP of src/src/tcp.rs and of the demultiplexer *)
(* loop of src/src/main.rs.                                                *)
(*                                                                         *)
(* One iteration of main's loop is three steps: the blocking nic.recv      *)
(* (RecvFrame, or RecvFails), the handling of the frame by accept or       *)
(* on_packet (Accept, OnPacket, Ignore), and the jump back to the head of  *)
(* the loop (Loop).  Between the handling and the jump back the state      *)
(* holds the frame, the connection as it was before the handling (pre),    *)
(* the segments handed to nic.send (sent) and the states assigned          *)
(* (transitions), so that a property of one handling pass is a state       *)
(* predicate of the states with pc = "done".                               *)
(*                                                                         *)
(* A u32 is kept at its full width as two 16-bit limbs, [hi, lo], value    *)
(* hi * 2^16 + lo: TLC's integers stop short of 2^32.                      *)
(***************************************************************************)
EXTENDS Integers, Sequences, FiniteSets

VARIABLES
    connections,     \* main.rs:15   the HashMap<Quad, Connection>
    inbound,         \* main.rs:17   the frame nic.recv returned (parsed)
    pc,              \* main's position: "recv", "dispatch" or "done"
    status,          \* "running", "io_error" (main returned Err) or "panicked"
    overflow_checks, \* the build: TRUE when integer overflow panics (debug)
    pre,             \* history: connections[quad] before the handling pass
    handled,         \* history: the path the pass took through main
    sent,            \* history: the segments nic.send took in the pass
    transitions,     \* history: the values assigned to self.state in the pass
    probe            \* tcp.rs:327  arguments and results of is_between_wrapped
                     \*             called on its own

vars == <<connections, inbound, pc, status, overflow_checks,
          pre, handled, sent, transitions, probe>>

---------------------------------------------------------------------------
(* Bounds of the model.                                                    *)

\* The largest payload of an inbound frame.
MaxPayload == 2
\* The largest receive window a peer announces in its SYN.
MaxWnd == 2
\* Frames that would move RCV.NXT more than this far past IRS+1 are not drawn.
MaxAdvance == 6

---------------------------------------------------------------------------
(* u32 arithmetic.                                                         *)

Limb == 2 ^ 16

U32(h, l) == [hi |-> h, lo |-> l]

\* a small natural number as a u32
FromNat(n) == U32(n \div Limb, n % Limb)

\* u32::wrapping_add(a, n) for 0 <= n < 2^16 * 2^15
wrapping_add(a, n) ==
    LET s == a.lo + n
    IN  U32((a.hi + (s \div Limb)) % Limb, s % Limb)

\* u32::wrapping_sub(a, n)
wrapping_sub(a, n) ==
    LET s == a.lo - n
    IN  U32((a.hi + (s \div Limb)) % Limb, s % Limb)

\* a < b, a <= b as unsigned integers (Ord for u32)
Lt32(a, b) == a.hi < b.hi \/ (a.hi = b.hi /\ a.lo < b.lo)
Le32(a, b) == a = b \/ Lt32(a, b)

\* (a - b) mod 2^32
Sub32(a, b) ==
    LET l == a.lo - b.lo
    IN  U32((a.hi - b.hi + (l \div Limb)) % Limb, l % Limb)

\* d < n for a u32 d and a natural number n <= 2^16
Below(d, n) == d.hi = 0 /\ d.lo < n

MaxU32 == U32(Limb - 1, Limb - 1)

\* `a + n` on u32: wraps in a build without overflow checks and panics in a
\* build with them.  Overflows(a, n) says whether the sum leaves the type.
Overflows(a, n) == Lt32(wrapping_add(a, n), a)

---------------------------------------------------------------------------
(* tcp.rs: is_between_wrapped                                              *)

\* mutant: the comparison without the two wrap cases
is_between_unwrapped(start, x, end) == Lt32(start, x) /\ Lt32(x, end)

\* mutant: start = x is handled as start < x
is_between_equal_start(start, x, end) ==
    IF Le32(start, x)
    THEN ~(Le32(start, end) /\ Le32(end, x))
    ELSE Lt32(end, start) /\ Lt32(x, end)

\* mutant: start > x without the test that end is below start
is_between_end_unchecked(start, x, end) ==
    IF start = x THEN FALSE
    ELSE IF Lt32(start, x)
         THEN ~(Le32(start, end) /\ Le32(end, x))
         ELSE Lt32(x, end)

is_between_wrapped(start, x, end) ==
    IF start = x THEN FALSE
    ELSE IF Lt32(start, x)
         THEN ~(Le32(start, end) /\ Le32(end, x))
         ELSE Lt32(end, start) /\ Lt32(x, end)

---------------------------------------------------------------------------
(* tcp.rs: the connection                                                  *)

States == {"SynRcvd", "Estab", "FinWait1", "FinWait2", "TimeWait"}

\* State::is_synchronized
is_synchronized(state) == state # "SynRcvd"

\* the absent entry of the HashMap, and Option::None of accept
Vacant == [state |-> "Vacant"]

\* the sizes write works with: the buffer, and the two headers without options
MTU == 1500
IpHeaderLen == 20
TcpHeaderLen == 20

\* the placeholders of accept
ISS == 0
SendWnd == 10

Min(a, b) == IF a < b THEN a ELSE b

\* The pass so far: the connection, the segments nic.send took, the states
\* assigned, and ret: "run" while the handler is still executing, else how it
\* returned ("ok", "io_error") or that it panicked ("panic").
Ctx(c) == [conn |-> c, sent |-> <<>>, transitions |-> <<>>, ret |-> "run"]

set_state(ctx, s) ==
    [ctx EXCEPT !.conn.state = s, !.transitions = Append(@, s)]

\* mutant: the SYN and FIN flags of the template stay set after the emission
write_keeps_flags(ctx, payload_len, nic_fail) ==
    LET c == ctx.conn
        seg == [sequence_number |-> c.send.nxt,
                acknowledgment_number |-> c.recv.nxt,
                syn |-> c.tcp.syn, fin |-> c.tcp.fin,
                ack |-> c.tcp.ack, rst |-> c.tcp.rst,
                window_size |-> c.tcp.window_size,
                len |-> Min(payload_len, MTU - IpHeaderLen - TcpHeaderLen)]
        nxt0 == wrapping_add(c.send.nxt, seg.len)
        nxt1 == IF c.tcp.syn THEN wrapping_add(nxt0, 1) ELSE nxt0
        nxt2 == IF c.tcp.fin THEN wrapping_add(nxt1, 1) ELSE nxt1
        c2 == [c EXCEPT !.send.nxt = nxt2]
    IN  IF nic_fail = Len(ctx.sent) + 1
        THEN [ctx EXCEPT !.conn = c2, !.ret = "io_error"]
        ELSE [ctx EXCEPT !.conn = c2, !.sent = Append(@, seg)]

\* mutant: a FIN does not consume a sequence number
write_fin_not_counted(ctx, payload_len, nic_fail) ==
    LET c == ctx.conn
        seg == [sequence_number |-> c.send.nxt,
                acknowledgment_number |-> c.recv.nxt,
                syn |-> c.tcp.syn, fin |-> c.tcp.fin,
                ack |-> c.tcp.ack, rst |-> c.tcp.rst,
                window_size |-> c.tcp.window_size,
                len |-> Min(payload_len, MTU - IpHeaderLen - TcpHeaderLen)]
        nxt0 == wrapping_add(c.send.nxt, seg.len)
        nxt1 == IF c.tcp.syn THEN wrapping_add(nxt0, 1) ELSE nxt0
        c2 == [c EXCEPT !.send.nxt = nxt1, !.tcp.syn = FALSE, !.tcp.fin = FALSE]
    IN  IF nic_fail = Len(ctx.sent) + 1
        THEN [ctx EXCEPT !.conn = c2, !.ret = "io_error"]
        ELSE [ctx EXCEPT !.conn = c2, !.sent = Append(@, seg)]

\* Connection::write.  nic_fail = k > 0 makes the k-th nic.send of the pass
\* return an error, which `?` hands to the caller.
write(ctx, payload_len, nic_fail) ==
    LET c == ctx.conn
        seg == [sequence_number |-> c.send.nxt,
                acknowledgment_number |-> c.recv.nxt,
                syn |-> c.tcp.syn, fin |-> c.tcp.fin,
                ack |-> c.tcp.ack, rst |-> c.tcp.rst,
                window_size |-> c.tcp.window_size,
                len |-> Min(payload_len, MTU - IpHeaderLen - TcpHeaderLen)]
        nxt0 == wrapping_add(c.send.nxt, seg.len)
        nxt1 == IF c.tcp.syn THEN wrapping_add(nxt0, 1) ELSE nxt0
        nxt2 == IF c.tcp.fin THEN wrapping_add(nxt1, 1) ELSE nxt1
        c2 == [c EXCEPT !.send.nxt = nxt2, !.tcp.syn = FALSE, !.tcp.fin = FALSE]
    IN  IF nic_fail = Len(ctx.sent) + 1
        THEN [ctx EXCEPT !.conn = c2, !.ret = "io_error"]
        ELSE [ctx EXCEPT !.conn = c2, !.sent = Append(@, seg)]

\* Connection::accept, lines 104-146: the new connection
new_connection(tcph) ==
    [state |-> "SynRcvd",
     send |-> [iss |-> FromNat(ISS), una |-> FromNat(ISS), nxt |-> FromNat(ISS),
               wnd |-> SendWnd, up |-> FALSE, wl1 |-> 0, wl2 |-> 0],
     recv |-> [irs |-> tcph.sequence_number,
               nxt |-> wrapping_add(tcph.sequence_number, 1),
               wnd |-> tcph.window_size, up |-> FALSE],
     tcp |-> [syn |-> FALSE, fin |-> FALSE, ack |-> FALSE, rst |-> FALSE,
              window_size |-> SendWnd]]

\* mutant: accept without the test of the SYN flag
accept_without_syn_test(tcph, data_len, nic_fail, checks) ==
    IF checks /\ Overflows(tcph.sequence_number, 1)
    THEN [Ctx(Vacant) EXCEPT !.ret = "panic"]
    ELSE LET c == [new_connection(tcph) EXCEPT !.tcp.syn = TRUE, !.tcp.ack = TRUE]
             w == write(Ctx(c), 0, nic_fail)
         IN  IF w.ret = "run" THEN [w EXCEPT !.ret = "ok"]
             ELSE [w EXCEPT !.conn = Vacant]

\* Connection::accept.  conn is Vacant for Ok(None) and when nothing is returned.
accept(tcph, data_len, nic_fail, checks) ==
    IF ~tcph.syn THEN [Ctx(Vacant) EXCEPT !.ret = "ok"]
    ELSE IF checks /\ Overflows(tcph.sequence_number, 1)
    THEN [Ctx(Vacant) EXCEPT !.ret = "panic"]
    ELSE LET c == [new_connection(tcph) EXCEPT !.tcp.syn = TRUE, !.tcp.ack = TRUE]
             w == write(Ctx(c), 0, nic_fail)
         IN  IF w.ret = "run" THEN [w EXCEPT !.ret = "ok"]
             ELSE [w EXCEPT !.conn = Vacant]

---------------------------------------------------------------------------
(* tcp.rs: Connection::on_packet                                           *)

\* lines 228-234: slen
seg_len(tcph, data_len) ==
    data_len + (IF tcph.fin THEN 1 ELSE 0) + (IF tcph.syn THEN 1 ELSE 0)

\* lines 235-258: okay
okay(c, tcph, data_len) ==
    LET seqn == tcph.sequence_number
        slen == seg_len(tcph, data_len)
        wend == wrapping_add(c.recv.nxt, c.recv.wnd)
        start == wrapping_sub(c.recv.nxt, 1)
    IN  IF slen = 0
        THEN IF c.recv.wnd = 0
             THEN seqn = c.recv.nxt
             ELSE is_between_wrapped(start, seqn, wend)
        ELSE IF c.recv.wnd = 0
             THEN FALSE
             ELSE ~(  ~is_between_wrapped(start, seqn, wend)
                   /\ ~is_between_wrapped(start, wrapping_add(seqn, slen - 1), wend))

\* mutant: RCV.NXT moves past the payload only, not past SYN and FIN
advance_rcv_nxt_payload_only(c, tcph, data_len) ==
    [c EXCEPT !.recv.nxt = wrapping_add(tcph.sequence_number, data_len)]

\* mutant: RCV.NXT is set to the sequence number, the length left out
advance_rcv_nxt_seq_only(c, tcph, data_len) ==
    [c EXCEPT !.recv.nxt = tcph.sequence_number]

\* line 265
advance_rcv_nxt(c, tcph, data_len) ==
    [c EXCEPT !.recv.nxt =
        wrapping_add(tcph.sequence_number, seg_len(tcph, data_len))]

\* mutant: the handshake test without the test of the state
syn_rcvd_stage_any_state(ctx, tcph) ==
    LET c == ctx.conn
    IN  IF is_between_wrapped(wrapping_sub(c.send.una, 1),
                              tcph.acknowledgment_number,
                              wrapping_add(c.send.nxt, 1))
        THEN set_state(ctx, "Estab")
        ELSE ctx

\* lines 275-284
syn_rcvd_stage(ctx, tcph) ==
    LET c == ctx.conn
    IN  IF /\ c.state = "SynRcvd"
           /\ is_between_wrapped(wrapping_sub(c.send.una, 1),
                                 tcph.acknowledgment_number,
                                 wrapping_add(c.send.nxt, 1))
        THEN set_state(ctx, "Estab")
        ELSE ctx

\* mutant: the acceptable range reaches one past SND.NXT
ack_acceptable_past_nxt(c, tcph) ==
    is_between_wrapped(c.send.una, tcph.acknowledgment_number,
                       wrapping_add(c.send.nxt, 2))

\* line 288: the acknowledgment number is acceptable
ack_acceptable(c, tcph) ==
    is_between_wrapped(c.send.una, tcph.acknowledgment_number,
                       wrapping_add(c.send.nxt, 1))

\* lines 287-301
estab_stage(ctx, tcph, data_len, nic_fail) ==
    LET c == ctx.conn
    IN  IF ctx.ret # "run" \/ c.state \notin {"Estab", "FinWait1", "FinWait2"}
        THEN ctx
        ELSE IF ~ack_acceptable(c, tcph)
        THEN [ctx EXCEPT !.ret = "ok"]
        ELSE LET acked == [ctx EXCEPT !.conn.send.una = tcph.acknowledgment_number]
             IN  IF data_len # 0
                 THEN [acked EXCEPT !.ret = "panic"]
                 ELSE IF c.state = "Estab"
                 THEN LET w == write([acked EXCEPT !.conn.tcp.fin = TRUE],
                                     0, nic_fail)
                      IN  IF w.ret = "run" THEN set_state(w, "FinWait1") ELSE w
                 ELSE acked

\* mutant: the FIN counts as acknowledged one sequence number early
fin_wait1_stage_off_by_one(ctx) ==
    LET c == ctx.conn
    IN  IF /\ ctx.ret = "run"
           /\ c.state = "FinWait1"
           /\ c.send.una = wrapping_add(c.send.iss, 1)
        THEN set_state(ctx, "FinWait2")
        ELSE ctx

\* lines 304-309
fin_wait1_stage(ctx) ==
    LET c == ctx.conn
    IN  IF /\ ctx.ret = "run"
           /\ c.state = "FinWait1"
           /\ c.send.una = wrapping_add(c.send.iss, 2)
        THEN set_state(ctx, "FinWait2")
        ELSE ctx

\* lines 311-320
fin_stage(ctx, tcph, nic_fail) ==
    IF ctx.ret # "run" \/ ~tcph.fin THEN ctx
    ELSE IF ctx.conn.state = "FinWait2"
    THEN LET w == write(ctx, 0, nic_fail)
         IN  IF w.ret = "run" THEN set_state(w, "TimeWait") ELSE w
    ELSE [ctx EXCEPT !.ret = "panic"]

\* line 323, and the `?` of line 261
returns_ok(ctx) == IF ctx.ret = "run" THEN [ctx EXCEPT !.ret = "ok"] ELSE ctx

on_packet(c, tcph, data_len, nic_fail) ==
    IF ~okay(c, tcph, data_len)
    THEN returns_ok(write(Ctx(c), 0, nic_fail))
    ELSE returns_ok(
           fin_stage(
             fin_wait1_stage(
               estab_stage(
                 syn_rcvd_stage(Ctx(advance_rcv_nxt(c, tcph, data_len)), tcph),
                 tcph, data_len, nic_fail)),
             tcph, nic_fail))

---------------------------------------------------------------------------
(* main.rs: the frames and the loop                                        *)

\* One flow: on_packet reads and writes its own connection only.
Quads == {"q1"}

NoFrame == [kind |-> "none"]

\* a frame that is not IPv4, not TCP, or whose TCP header does not parse
OtherFrame == [kind |-> "other"]

PayloadLens == 0 .. MaxPayload
RcvWnds == {0, MaxWnd}
AckNums == {FromNat(0), FromNat(1), FromNat(2), FromNat(3)}
InitialSeqs == {FromNat(1000), wrapping_sub(MaxU32, 1), MaxU32}
NicFailures == {0, 1, 2}

\* the sequence numbers drawn for a frame of an open flow: around RCV.NXT and
\* around the end of the window
SeqNums(c) ==
    {wrapping_sub(c.recv.nxt, 2), wrapping_sub(c.recv.nxt, 1), c.recv.nxt,
     wrapping_add(c.recv.nxt, 1),
     wrapping_sub(wrapping_add(c.recv.nxt, c.recv.wnd), 1),
     wrapping_add(c.recv.nxt, c.recv.wnd)}

TcpFrames(q, seqs, wnds) ==
    { [kind |-> "tcp", quad |-> q, data_len |-> n,
       tcph |-> [syn |-> s, fin |-> f, ack |-> a, sequence_number |-> sq,
                 acknowledgment_number |-> ak, window_size |-> w]] :
      s \in BOOLEAN, f \in BOOLEAN, a \in BOOLEAN,
      sq \in seqs, ak \in AckNums, w \in wnds, n \in PayloadLens }

\* how far RCV.NXT is past IRS + 1
Advance(c) == Sub32(c.recv.nxt, wrapping_add(c.recv.irs, 1))

WithinAdvance(c, fr) ==
    LET r == on_packet(c, fr.tcph, fr.data_len, 0)
    IN  Below(Advance(r.conn), MaxAdvance + 1)

Frames ==
    {OtherFrame} \cup
    UNION { IF connections[q] = Vacant
            THEN TcpFrames(q, InitialSeqs, RcvWnds)
            ELSE { fr \in TcpFrames(q, SeqNums(connections[q]), {MaxWnd}) :
                     WithinAdvance(connections[q], fr) }
            : q \in Quads }

StatusOf(ret) ==
    CASE ret = "ok" -> "running"
      [] ret = "io_error" -> "io_error"
      [] ret = "panic" -> "panicked"

\* no call of is_between_wrapped on its own is under way
NoProbe == [phase |-> "none"]

Init ==
    /\ connections = [q \in Quads |-> Vacant]
    /\ inbound = NoFrame
    /\ pc = "recv"
    /\ status = "running"
    /\ overflow_checks \in BOOLEAN
    /\ pre = Vacant
    /\ handled = "none"
    /\ sent = <<>>
    /\ transitions = <<>>
    /\ probe = NoProbe

\* main.rs:19, nic.recv returns a frame
RecvFrame ==
    /\ pc = "recv" /\ status = "running"
    /\ \E fr \in Frames : inbound' = fr
    /\ pc' = "dispatch"
    /\ UNCHANGED <<probe, connections, status, overflow_checks, pre, handled, sent,
                   transitions>>

\* main.rs:19, nic.recv returns an error and `?` ends main
RecvFails ==
    /\ pc = "recv" /\ status = "running"
    /\ status' = "io_error"
    /\ UNCHANGED <<probe, connections, inbound, pc, overflow_checks, pre, handled,
                   sent, transitions>>

\* main.rs:31-34 and 60-68: the frame is dropped
Ignore ==
    /\ pc = "dispatch" /\ inbound.kind = "other"
    /\ handled' = "ignored"
    /\ pc' = "done"
    /\ UNCHANGED <<probe, connections, inbound, status, overflow_checks, pre, sent,
                   transitions>>

\* main.rs:48-57, Entry::Vacant
Accept ==
    /\ pc = "dispatch" /\ inbound.kind = "tcp"
    /\ connections[inbound.quad] = Vacant
    /\ \E nic_fail \in NicFailures :
         LET r == accept(inbound.tcph, inbound.data_len, nic_fail, overflow_checks)
         IN  /\ connections' = [connections EXCEPT ![inbound.quad] = r.conn]
             /\ status' = StatusOf(r.ret)
             /\ sent' = r.sent
             /\ transitions' = r.transitions
    /\ pre' = Vacant
    /\ handled' = "accept"
    /\ pc' = "done"
    /\ UNCHANGED <<probe, inbound, overflow_checks>>

\* main.rs:44-47, Entry::Occupied
OnPacket ==
    /\ pc = "dispatch" /\ inbound.kind = "tcp"
    /\ connections[inbound.quad] # Vacant
    /\ LET c == connections[inbound.quad]
       IN  /\ \E nic_fail \in NicFailures :
                LET r == on_packet(c, inbound.tcph, inbound.data_len, nic_fail)
                IN  /\ connections' = [connections EXCEPT ![inbound.quad] = r.conn]
                    /\ status' = StatusOf(r.ret)
                    /\ sent' = r.sent
                    /\ transitions' = r.transitions
           /\ pre' = c
           /\ handled' = IF okay(c, inbound.tcph, inbound.data_len)
                         THEN "accepted" ELSE "rejected"
    /\ pc' = "done"
    /\ UNCHANGED <<probe, inbound, overflow_checks>>

\* main.rs:18, the next iteration of the loop
Loop ==
    /\ pc = "done" /\ status = "running"
    /\ pc' = "recv"
    /\ inbound' = NoFrame
    /\ pre' = Vacant
    /\ handled' = "none"
    /\ sent' = <<>>
    /\ transitions' = <<>>
    /\ UNCHANGED <<probe, connections, status, overflow_checks>>

Next == RecvFrame \/ RecvFails \/ Ignore \/ Accept \/ OnPacket \/ Loop

Spec == Init /\ [][Next]_vars

---------------------------------------------------------------------------
(* What the properties below read.                                         *)

\* the connection the frame was routed to, after the pass
Conn == connections[inbound.quad]
Tcph == inbound.tcph

\* the pass is over and no nic.send failed in it
PassDone == pc = "done" /\ status # "io_error"
\* on_packet handled the frame (and accepted, rejected its sequence number)
OnPacketDone == PassDone /\ handled \in {"accepted", "rejected"}
AcceptedDone == PassDone /\ handled = "accepted"
RejectedDone == PassDone /\ handled = "rejected"

\* 0 < (x - start) mod 2^32 < (end - start) mod 2^32
RefBetween(start, x, end) ==
    /\ Sub32(x, start) # FromNat(0)
    /\ Lt32(Sub32(x, start), Sub32(end, start))

\* seg_len = payload_len + (SYN?1:0) + (FIN?1:0)
RefSegLen(fr) ==
    fr.data_len + (IF fr.tcph.syn THEN 1 ELSE 0) + (IF fr.tcph.fin THEN 1 ELSE 0)

\* (s - RCV.NXT) mod 2^32 < RCV.WND
RefInWindow(c, s) == Below(Sub32(s, c.recv.nxt), c.recv.wnd)

\* the acceptance matrix of RFC 793
RefAcceptable(c, fr) ==
    LET seq == fr.tcph.sequence_number
        len == RefSegLen(fr)
    IN  IF len = 0
        THEN IF c.recv.wnd = 0 THEN seq = c.recv.nxt ELSE RefInWindow(c, seq)
        ELSE /\ c.recv.wnd > 0
             /\ \/ RefInWindow(c, seq)
                \/ RefInWindow(c, Sub32(wrapping_add(seq, len), FromNat(1)))

\* the sequence numbers an outbound segment consumes
SeqSpace(seg) ==
    seg.len + (IF seg.syn THEN 1 ELSE 0) + (IF seg.fin THEN 1 ELSE 0)

PureAck(seg) ==
    seg.ack /\ ~seg.syn /\ ~seg.fin /\ ~seg.rst /\ seg.len = 0

---------------------------------------------------------------------------
(* C1.  Passive open: a SYN with sequence number S and window W for a quad *)
(* absent from the table creates a connection under that quad in SynRcvd   *)
(* with RCV.IRS = S, RCV.NXT = S+1 mod 2^32, RCV.WND = W, SND.ISS =        *)
(* SND.UNA = 0, SND.NXT = 1, and exactly one segment is sent: SYN, ACK,    *)
(* seq 0, ack S+1 mod 2^32, no payload.  This holds in a build without     *)
(* overflow checks only: with them `tcph.sequence_number() + 1` panics for *)
(* S = 0xFFFFFFFF.                                                         *)
C1_PassiveOpen ==
    (PassDone /\ handled = "accept" /\ Tcph.syn) =>
        /\ status = "running"
        /\ Conn # Vacant
        /\ Conn.state = "SynRcvd"
        /\ Conn.recv.irs = Tcph.sequence_number
        /\ Conn.recv.nxt = Sub32(Tcph.sequence_number, MaxU32)
        /\ Conn.recv.wnd = Tcph.window_size
        /\ Conn.send.iss = FromNat(0)
        /\ Conn.send.una = FromNat(0)
        /\ Conn.send.nxt = FromNat(1)
        /\ Len(sent) = 1
        /\ sent[1].syn /\ sent[1].ack
        /\ sent[1].sequence_number = FromNat(0)
        /\ sent[1].acknowledgment_number = Sub32(Tcph.sequence_number, MaxU32)
        /\ sent[1].len = 0

---------------------------------------------------------------------------
(* C2.  on_packet accepts a segment's sequence number exactly when the     *)
(* acceptance matrix does: (len 0, wnd 0) seq = RCV.NXT; (len 0, wnd > 0)  *)
(* (seq - RCV.NXT) mod 2^32 < RCV.WND; (len > 0, wnd 0) never; (len > 0,   *)
(* wnd > 0) the first or the last octet is in the window.  The window may  *)
(* straddle the wrap: with RCV.NXT = 0xFFFFFFF0 and RCV.WND = 32 a segment *)
(* with seq 0xFFFFFFF0 and 16 octets is accepted and RCV.NXT becomes 0.    *)
C2_WrapExample ==
    LET syn == [syn |-> TRUE, fin |-> FALSE, ack |-> FALSE,
                sequence_number |-> U32(65535, 65519),
                acknowledgment_number |-> FromNat(0), window_size |-> 32]
        c == new_connection(syn)
        seg == [syn |-> FALSE, fin |-> FALSE, ack |-> TRUE,
                sequence_number |-> U32(65535, 65520),
                acknowledgment_number |-> FromNat(1), window_size |-> 32]
    IN  /\ c.recv.nxt = U32(65535, 65520)
        /\ okay(c, seg, 16)
        /\ on_packet(c, seg, 16, 0).conn.recv.nxt = FromNat(0)

C2_SeqAcceptance ==
    /\ OnPacketDone => ((handled = "accepted") <=> RefAcceptable(pre, inbound))
    /\ C2_WrapExample

\* a segment accepted in a window that straddles the wrap; RCV.NXT becomes 0
C2_Witness ==
    /\ AcceptedDone
    /\ pre.recv.nxt = MaxU32 /\ pre.recv.wnd = 2
    /\ Tcph.sequence_number = MaxU32 /\ inbound.data_len = 1
    /\ ~Tcph.syn /\ ~Tcph.fin
    /\ Conn.recv.nxt = FromNat(0)

---------------------------------------------------------------------------
(* C3.  A segment rejected at the sequence-number check, in any state of   *)
(* the connection, causes exactly one outbound segment, a pure ACK with    *)
(* seq = SND.NXT and ack = RCV.NXT, and leaves state, SND.UNA, SND.NXT,    *)
(* RCV.NXT and RCV.WND as they were.                                       *)
C3_RejectionAck ==
    RejectedDone =>
        /\ status = "running"
        /\ Len(sent) = 1
        /\ PureAck(sent[1])
        /\ sent[1].sequence_number = pre.send.nxt
        /\ sent[1].acknowledgment_number = pre.recv.nxt
        /\ transitions = <<>>
        /\ Conn.state = pre.state
        /\ Conn.send.una = pre.send.una
        /\ Conn.send.nxt = pre.send.nxt
        /\ Conn.recv.nxt = pre.recv.nxt
        /\ Conn.recv.wnd = pre.recv.wnd

\* a segment rejected after our FIN went out
C3_Witness ==
    /\ RejectedDone
    /\ pre.state = "FinWait2"
    /\ Len(sent) = 1 /\ PureAck(sent[1])

---------------------------------------------------------------------------
(* C4.  Every segment the writer emits carries SND.NXT as it was just      *)
(* before the emission as its sequence number and RCV.NXT as its           *)
(* acknowledgment number; the emission advances SND.NXT by payload + SYN + *)
(* FIN mod 2^32 and leaves the template's SYN and FIN clear.               *)
RECURSIVE SeqSpaceOf(_)
SeqSpaceOf(segs) ==
    IF segs = <<>> THEN 0 ELSE SeqSpace(Head(segs)) + SeqSpaceOf(Tail(segs))

\* SND.NXT when the pass began
SndNxtBefore == IF handled = "accept" THEN FromNat(ISS) ELSE pre.send.nxt

C4_WriterSequence ==
    (PassDone /\ sent # <<>>) =>
        /\ \A i \in 1 .. Len(sent) :
             /\ sent[i].sequence_number =
                  wrapping_add(SndNxtBefore, SeqSpaceOf(SubSeq(sent, 1, i - 1)))
             /\ sent[i].acknowledgment_number = Conn.recv.nxt
        /\ Conn.send.nxt = wrapping_add(SndNxtBefore, SeqSpaceOf(sent))
        /\ ~Conn.tcp.syn /\ ~Conn.tcp.fin

\* the FIN of active close went out
C4_Witness ==
    /\ PassDone /\ handled = "accepted"
    /\ Len(sent) = 1 /\ sent[1].fin
    /\ Conn.send.nxt = wrapping_add(pre.send.nxt, 1)

---------------------------------------------------------------------------
(* C5.  As claimed: RCV.NXT after a sequence of segments is the initial    *)
(* RCV.NXT plus the sum of seg_len over the accepted ones.  That is, by    *)
(* induction on the sequence, each on_packet call adds seg_len to RCV.NXT  *)
(* when it accepts the segment and nothing when it rejects it.             *)
C5_SumOfAcceptedLengths ==
    OnPacketDone =>
        Conn.recv.nxt = IF handled = "accepted"
                        THEN wrapping_add(pre.recv.nxt, RefSegLen(inbound))
                        ELSE pre.recv.nxt

(* C5 as amended: an accepted segment sets RCV.NXT to its own seq +        *)
(* seg_len mod 2^32 and a rejected one leaves RCV.NXT alone; so RCV.NXT    *)
(* grows by seg_len for an accepted segment that arrives with seq =        *)
(* RCV.NXT, and the sum holds for sequences of such segments.              *)
C5_Amended ==
    OnPacketDone =>
        /\ handled = "accepted" =>
             Conn.recv.nxt = Sub32(wrapping_add(Tcph.sequence_number,
                                                RefSegLen(inbound)), FromNat(0))
        /\ (handled = "accepted" /\ Tcph.sequence_number = pre.recv.nxt) =>
             Sub32(Conn.recv.nxt, pre.recv.nxt) = FromNat(RefSegLen(inbound))
        /\ handled = "rejected" => Conn.recv.nxt = pre.recv.nxt

\* an accepted segment that starts past RCV.NXT and has a length
C5_Witness ==
    /\ AcceptedDone
    /\ Tcph.sequence_number = wrapping_add(pre.recv.nxt, 1)
    /\ RefSegLen(inbound) = 2
    /\ Conn.recv.nxt = wrapping_add(pre.recv.nxt, 3)

---------------------------------------------------------------------------
(* C6.  No inbound segment ends the process: in every state of a           *)
(* connection, whatever the segment's flags, numbers and payload,          *)
(* on_packet completes without abort, and main stops only when nic.recv or *)
(* nic.send fails.                                                         *)
C6_NoAbort ==
    (pc = "done" /\ handled \in {"accepted", "rejected"}) =>
        status \in {"running", "io_error"}

---------------------------------------------------------------------------
(* C7.  Peer close: in FinWait2 an accepted segment with FIN moves the     *)
(* connection to TimeWait and causes exactly one pure ACK with seq =       *)
(* SND.NXT and ack = the new RCV.NXT; a FIN,ACK with seq = RCV.NXT, ack =  *)
(* SND.NXT and no payload advances RCV.NXT by 1.  Stated for the segments  *)
(* of a peer that has acknowledged our FIN: ACK set and ack = SND.NXT.     *)
C7_PeerClose ==
    (/\ AcceptedDone /\ pre.state = "FinWait2" /\ Tcph.fin
     /\ Tcph.ack /\ Tcph.acknowledgment_number = pre.send.nxt) =>
        /\ status = "running"
        /\ Conn.state = "TimeWait"
        /\ Len(sent) = 1
        /\ PureAck(sent[1])
        /\ sent[1].sequence_number = Conn.send.nxt
        /\ sent[1].acknowledgment_number = Conn.recv.nxt
        /\ (/\ ~Tcph.syn /\ inbound.data_len = 0
            /\ Tcph.sequence_number = pre.recv.nxt)
           => Conn.recv.nxt = wrapping_add(pre.recv.nxt, 1)

---------------------------------------------------------------------------
(* C8.  Handshake completion: in SynRcvd an empty ACK with seq = RCV.NXT   *)
(* and ack = SND.NXT takes the connection through Estab to FinWait1 in the *)
(* one pass, sends exactly one FIN,ACK with seq = ISS+1 and ack = RCV.NXT, *)
(* and leaves SND.UNA = ISS+1 and SND.NXT = ISS+2.                         *)
C8_Case ==
    /\ OnPacketDone
    /\ pre.state = "SynRcvd"
    /\ Tcph.ack /\ ~Tcph.syn /\ ~Tcph.fin /\ inbound.data_len = 0
    /\ Tcph.sequence_number = pre.recv.nxt
    /\ Tcph.acknowledgment_number = pre.send.nxt

C8_HandshakeCompletion ==
    C8_Case =>
        /\ pre.send.una = pre.send.iss
        /\ pre.send.nxt = wrapping_add(pre.send.iss, 1)
        /\ status = "running"
        /\ transitions = <<"Estab", "FinWait1">>
        /\ Conn.state = "FinWait1"
        /\ Len(sent) = 1
        /\ sent[1].fin /\ sent[1].ack /\ ~sent[1].syn /\ ~sent[1].rst
        /\ sent[1].len = 0
        /\ sent[1].sequence_number = wrapping_add(pre.send.iss, 1)
        /\ sent[1].acknowledgment_number = pre.recv.nxt
        /\ Conn.recv.nxt = pre.recv.nxt
        /\ Conn.send.una = wrapping_add(pre.send.iss, 1)
        /\ Conn.send.nxt = wrapping_add(pre.send.iss, 2)

\* the handshake completed on a connection whose window is closed
C8_Witness ==
    /\ C8_Case
    /\ pre.recv.wnd = 0
    /\ Conn.state = "FinWait1"

---------------------------------------------------------------------------
(* C9.  An accepted segment whose ACK flag is clear is dropped at the ACK  *)
(* step in every state: no state transition, SND.UNA unchanged, nothing    *)
(* sent, whatever its acknowledgment-number field holds.                   *)
C9_NoAckDropped ==
    (AcceptedDone /\ ~Tcph.ack) =>
        /\ status = "running"
        /\ transitions = <<>>
        /\ Conn.state = pre.state
        /\ Conn.send.una = pre.send.una
        /\ sent = <<>>

---------------------------------------------------------------------------
(* C10.  In Estab, FinWait1 or FinWait2 an accepted segment whose          *)
(* acknowledgment number is not between(SND.UNA, ack, SND.NXT+1) is        *)
(* dropped (no transition, SND.UNA unchanged) and exactly one pure ACK     *)
(* advising RCV.NXT is sent.  Stated for the segments that carry an        *)
(* acknowledgment number: ACK set.                                         *)
C10_AckOutOfWindow ==
    (/\ AcceptedDone /\ Tcph.ack
     /\ pre.state \in {"Estab", "FinWait1", "FinWait2"}
     /\ ~RefBetween(pre.send.una, Tcph.acknowledgment_number,
                    wrapping_add(pre.send.nxt, 1))) =>
        /\ status = "running"
        /\ transitions = <<>>
        /\ Conn.state = pre.state
        /\ Conn.send.una = pre.send.una
        /\ Len(sent) = 1
        /\ PureAck(sent[1])
        /\ sent[1].acknowledgment_number = Conn.recv.nxt

---------------------------------------------------------------------------
\* 2^31, half of the sequence space
Half == U32(Limb \div 2, 0)

(* C11: for every connection of the table, SND.UNA is not ahead of          *)
(* SND.NXT on the circle, (SND.NXT - SND.UNA) mod 2^32 <= 2^31; and a pass   *)
(* of on_packet that changed SND.UNA stored the segment's acknowledgment    *)
(* number, which was above the old SND.UNA and not above SND.NXT:            *)
(* 0 < (ack - SND.UNA) mod 2^32 <= (SND.NXT - SND.UNA) mod 2^32.             *)
C11_UnaStored == pc = "done" /\ handled = "accepted" /\ Conn.send.una # pre.send.una

C11_SndUnaNotAhead ==
    /\ \A q \in Quads :
         connections[q] # Vacant =>
           Le32(Sub32(connections[q].send.nxt, connections[q].send.una), Half)
    /\ pc = "done" /\ handled \in {"accepted", "rejected"}
         /\ Conn.send.una # pre.send.una =>
           /\ handled = "accepted"
           /\ Conn.send.una = Tcph.acknowledgment_number
           /\ Sub32(Tcph.acknowledgment_number, pre.send.una) # FromNat(0)
           /\ Le32(Sub32(Tcph.acknowledgment_number, pre.send.una),
                   Sub32(pre.send.nxt, pre.send.una))

\* SND.UNA was advanced to SND.NXT by the acknowledgment of the FIN
C11_Witness ==
    /\ C11_UnaStored
    /\ pre.state = "FinWait1"
    /\ Conn.send.una = Conn.send.nxt

(* C12: no call of on_packet moves RCV.NXT backwards:                        *)
(* (RCV.NXT' - RCV.NXT) mod 2^32 < 2^31, for a rejected segment, for one     *)
(* whose first octet is in the window and for one accepted only because its *)
(* last octet is in the window.                                             *)
C12_RcvNxtMonotone ==
    pc = "done" /\ handled \in {"accepted", "rejected"} =>
        Lt32(Sub32(Conn.recv.nxt, pre.recv.nxt), Half)

\* accepted by the last octet alone, the first octet being before RCV.NXT
C12_Witness ==
    /\ AcceptedDone
    /\ ~RefInWindow(pre, Tcph.sequence_number)
    /\ Lt32(Tcph.sequence_number, pre.recv.nxt)
    /\ Conn.recv.nxt # pre.recv.nxt

\* the pass assigned FinWait2 to the state
EnteredFinWait2 == \E i \in 1 .. Len(transitions) : transitions[i] = "FinWait2"

(* C13: a pass of on_packet that starts in FinWait1 moves the connection to *)
(* FinWait2 exactly when SND.UNA = ISS + 2 after the segment's              *)
(* acknowledgment was taken; a rejected segment and one whose               *)
(* acknowledgment number is not acceptable leave the state FinWait1; and a  *)
(* pass whose only state change is FinWait1 -> FinWait2 sends nothing.      *)
C13_FinWait1ToFinWait2 ==
    pc = "done" /\ handled \in {"accepted", "rejected"} /\ pre.state = "FinWait1" =>
        /\ EnteredFinWait2 <=> Conn.send.una = wrapping_add(Conn.send.iss, 2)
        /\ \/ handled = "rejected"
           \/ ~( /\ Sub32(Tcph.acknowledgment_number, pre.send.una) # FromNat(0)
                 /\ Le32(Sub32(Tcph.acknowledgment_number, pre.send.una),
                         Sub32(pre.send.nxt, pre.send.una)) )
           => Conn.state = "FinWait1" /\ transitions = <<>>
        /\ transitions = <<"FinWait2">> => sent = <<>>

---------------------------------------------------------------------------
(* tcp.rs:327-347 on its own: is_between_wrapped is called with arguments  *)
(* drawn around 0, 2^31 and 2^32, then with the three arguments shifted by *)
(* the same k.                                                             *)

\* a + b mod 2^32
Add32(a, b) ==
    LET l == a.lo + b.lo
    IN  U32((a.hi + b.hi + l \div Limb) % Limb, l % Limb)

\* how far from 0 and from 2^31 the arguments are drawn
Near == 1

\* the arguments of the example of the specification
ExampleStart == U32(Limb - 1, Limb - 16)
ExampleX == FromNat(5)
ExampleEnd == FromNat(16)

Points ==
    UNION { {wrapping_add(b, i), wrapping_sub(b, i)} :
            b \in {FromNat(0), U32(Limb \div 2, 0)}, i \in 0 .. Near }
    \cup {ExampleStart, ExampleX, ExampleEnd}

Shifts == Points \ {FromNat(0)}

BetweenInit ==
    /\ probe \in [phase : {"input"}, start : Points, x : Points, end : Points,
                  k : Shifts, result : {FALSE}, shifted : {FALSE}]
    /\ connections = [q \in Quads |-> Vacant]
    /\ inbound = NoFrame
    /\ pc = "recv"
    /\ status = "running"
    /\ overflow_checks = FALSE
    /\ pre = Vacant
    /\ handled = "none"
    /\ sent = <<>>
    /\ transitions = <<>>

\* is_between_wrapped(start, x, end)
Between ==
    /\ probe.phase = "input"
    /\ probe' = [probe EXCEPT !.phase = "applied",
                   !.result = is_between_wrapped(probe.start, probe.x, probe.end)]
    /\ UNCHANGED <<connections, inbound, pc, status, overflow_checks,
                   pre, handled, sent, transitions>>

\* is_between_wrapped(start + k, x + k, end + k)
BetweenShifted ==
    /\ probe.phase = "applied"
    /\ probe' = [probe EXCEPT !.phase = "shifted",
                   !.shifted = is_between_wrapped(Add32(probe.start, probe.k),
                                                  Add32(probe.x, probe.k),
                                                  Add32(probe.end, probe.k))]
    /\ UNCHANGED <<connections, inbound, pc, status, overflow_checks,
                   pre, handled, sent, transitions>>

BetweenNext == Between \/ BetweenShifted

BetweenSpec == BetweenInit /\ [][BetweenNext]_vars

(* C14: is_between_wrapped(start, x, end) is true exactly when              *)
(* 0 < (x - start) mod 2^32 < (end - start) mod 2^32; it is false whenever  *)
(* start = x; and it is true for (0xFFFFFFF0, 0x00000005, 0x00000010).      *)
C14_Between ==
    probe.phase \in {"applied", "shifted"} =>
        /\ probe.result <=> RefBetween(probe.start, probe.x, probe.end)
        /\ probe.start = probe.x => ~probe.result
        /\ probe.start = ExampleStart /\ probe.x = ExampleX
             /\ probe.end = ExampleEnd => probe.result

\* the example was evaluated
C14_Witness ==
    /\ probe.phase = "applied"
    /\ probe.start = ExampleStart /\ probe.x = ExampleX /\ probe.end = ExampleEnd
    /\ probe.result

(* C15: shifting the three arguments by the same k modulo 2^32 does not     *)
(* change the result: is_between_wrapped(a, b, c) =                         *)
(* is_between_wrapped(a + k, b + k, c + k), also when k moves some of the   *)
(* arguments across the wrap and not the others.                            *)
C15_TranslationInvariant ==
    probe.phase = "shifted" => probe.shifted = probe.result

\* start was carried across the wrap, x was not, and the result is TRUE
C15_Witness ==
    /\ probe.phase = "shifted"
    /\ probe.result /\ probe.shifted
    /\ Lt32(Add32(probe.start, probe.k), probe.start)
    /\ Lt32(probe.x, Add32(probe.x, probe.k))

---------------------------------------------------------------------------
(* C16: a TCP segment with the SYN flag clear whose quad is not in the      *)
(* table creates no connection: the step that handles it leaves the table   *)
(* as it was, sends nothing and main goes on, whatever the other flags,     *)
(* numbers and payload of the segment.                                      *)
C16_NoSynNoConnection ==
    [][ /\ pc = "dispatch" /\ inbound.kind = "tcp"
        /\ connections[inbound.quad] = Vacant
        /\ ~inbound.tcph.syn
        => /\ connections' = connections
           /\ sent' = <<>>
           /\ status' = "running"
           /\ handled' = "accept" ]_vars

\* a FIN with the ACK flag and payload on an unknown quad was dropped
C16_Witness ==
    /\ pc = "done" /\ handled = "accept"
    /\ ~Tcph.syn /\ Tcph.fin /\ Tcph.ack /\ inbound.data_len > 0
    /\ Conn = Vacant /\ sent = <<>>

(* C17 as stated: during the handling of one inbound frame the state of the *)
(* connection changes at most once.                                         *)
C17_OneTransition == pc = "done" => Len(transitions) <= 1

(* C17, amended: during the handling of one inbound frame the state of the  *)
(* connection changes at most twice, and two changes in one pass are        *)
(* SynRcvd -> Estab -> FinWait1 or FinWait1 -> FinWait2 -> TimeWait.         *)
C17_Amended ==
    pc = "done" =>
        /\ Len(transitions) <= 2
        /\ Len(transitions) = 2 =>
             \/ pre.state = "SynRcvd" /\ transitions = <<"Estab", "FinWait1">>
             \/ pre.state = "FinWait1" /\ transitions = <<"FinWait2", "TimeWait">>

\* one frame took the connection from FinWait1 to TimeWait
C17_Witness ==
    /\ PassDone
    /\ pre.state = "FinWait1" /\ transitions = <<"FinWait2", "TimeWait">>

(* C18: the handling of one inbound frame sends at most one segment; an     *)
(* accept that opens a connection sends exactly one, a SYN-ACK; a call of   *)
(* on_packet sends nothing or one of the rejection ACK, the FIN, the ACK of  *)
(* the peer's FIN.                                                          *)
C18_AtMostOneSegment ==
    /\ Len(sent) <= 1
    /\ pc = "done" /\ handled = "accept" /\ Conn # Vacant =>
         Len(sent) = 1 /\ sent[1].syn /\ sent[1].ack /\ ~sent[1].fin
    /\ pc = "done" /\ handled \in {"accepted", "rejected"} /\ Len(sent) = 1 =>
         /\ ~sent[1].syn
         /\ \/ handled = "rejected" /\ PureAck(sent[1])
            \/ sent[1].fin /\ pre.state \in {"SynRcvd", "Estab"}
                 /\ Conn.state = "FinWait1"
            \/ Tcph.fin /\ transitions = <<"FinWait2", "TimeWait">>
                 /\ PureAck(sent[1])

\* the pass with the most work: two state changes, one segment
C18_Witness ==
    /\ PassDone
    /\ transitions = <<"FinWait2", "TimeWait">>
    /\ Len(sent) = 1

\* the position of a state in the order of C19
Rank(state) ==
    CASE state = "SynRcvd" -> 1
      [] state = "Estab" -> 2
      [] state = "FinWait1" -> 3
      [] state = "FinWait2" -> 4
      [] state = "TimeWait" -> 5

(* C19: in every step, a connection of the table stays in the table and its *)
(* state stays or moves later in the order SynRcvd, Estab, FinWait1,        *)
(* FinWait2, TimeWait; a connection in TimeWait stays in TimeWait.          *)
C19_ForwardOnly ==
    [][ \A q \in Quads :
          connections[q] # Vacant =>
            /\ connections'[q] # Vacant
            /\ Rank(connections'[q].state) >= Rank(connections[q].state)
            /\ connections[q].state = "TimeWait" =>
                 connections'[q].state = "TimeWait" ]_vars

\* a SYN on the quad of a connection in TimeWait was handled
C19_Witness ==
    /\ pc = "done" /\ handled \in {"accepted", "rejected"}
    /\ pre.state = "TimeWait" /\ Tcph.syn
    /\ Conn.state = "TimeWait"

(* C20: for every connection, while main has not returned on a failed       *)
(* nic.send: SND.NXT = ISS + 1 in SynRcvd and Estab, SND.NXT = ISS + 2 in    *)
(* FinWait1, FinWait2 and TimeWait, and SND.UNA = SND.NXT = ISS + 2 in       *)
(* FinWait2 and TimeWait.                                                   *)
C20_SndNxtByState ==
    status # "io_error" =>
      \A q \in Quads :
        LET c == connections[q]
        IN  c # Vacant =>
              /\ c.state \in {"SynRcvd", "Estab"} =>
                   c.send.nxt = wrapping_add(c.send.iss, 1)
              /\ c.state \in {"FinWait1", "FinWait2", "TimeWait"} =>
                   c.send.nxt = wrapping_add(c.send.iss, 2)
              /\ c.state \in {"FinWait2", "TimeWait"} =>
                   c.send.una = c.send.nxt

\* a connection in TimeWait with the FIN acknowledged
C20_Witness ==
    /\ pc = "done" /\ status = "running"
    /\ handled \in {"accepted", "rejected"}
    /\ Conn.state = "TimeWait"
    /\ Conn.send.una = wrapping_add(Conn.send.iss, 2)

=============================================================================
